---- MODULE Spec2Model ----
(***************************************************************************)
(* hill_descent analysis scripts.                                          *)
(*                                                                         *)
(*   analyze_profiles.py   : analyze_profile(filename), per-frame          *)
(*                           exclusive / inclusive sample counts and the   *)
(*                           printed report (specification SpecProfile).   *)
(*   compare_benchmarks.py : parse_times(file_path) and the module-level   *)
(*                           comparison loop (specification SpecBench).    *)
(*                                                                         *)
(* Python lists are 0-based, TLA+ sequences 1-based: Python x[i] is        *)
(* x[i + 1] here.  Text is a sequence of one-character strings.            *)
(***************************************************************************)
EXTENDS Integers, Sequences, FiniteSets, TLC

\* ------------------------------------------------------------- bounds ----
NumFrames == 22
MaxSamples == 2
MaxProfiles == 2
MaxRows == 2

\* -------------------------------------------------- program constants ----
TopN == 20
NumCases == 3
MinParts == 9
PopField == 2
RegionsField == 3
TimeField == 9

VARIABLES
    \* analyze_profiles.py, analyze_profile
    pc, data, frame_names, total_samples, exclusive_counter, inclusive_counter,
    pidx, sidx, exc_report, inc_report, checks_report, fault,
    \* compare_benchmarks.py, module level
    bpc, case, content, old_times, new_times, row, table, total_old, total_new,
    total_line, grand_total_old, grand_total_new, summary, error

pvars == <<pc, data, frame_names, total_samples, exclusive_counter,
           inclusive_counter, pidx, sidx, exc_report, inc_report,
           checks_report, fault>>

bvars == <<bpc, case, content, old_times, new_times, row, table, total_old,
           total_new, total_line, grand_total_old, grand_total_new, summary,
           error>>

vars == <<pvars, bvars>>

\* ---------------------------------------------------------------- text ----
UpperCase == <<"A","B","C","D","E","F","G","H","I","J","K","L","M",
               "N","O","P","Q","R","S","T","U","V","W","X","Y","Z">>
LowerCase == <<"a","b","c","d","e","f","g","h","i","j","k","l","m",
               "n","o","p","q","r","s","t","u","v","w","x","y","z">>

LowerOf ==
    [c \in {UpperCase[i] : i \in DOMAIN UpperCase} |->
        LowerCase[CHOOSE i \in DOMAIN UpperCase : UpperCase[i] = c]]

\* str.lower(), one character
LowerChar(c) == IF c \in DOMAIN LowerOf THEN LowerOf[c] ELSE c

\* str.lower()
Lower(s) == <<>> \o [i \in DOMAIN s |-> LowerChar(s[i])]

\* `t in s` for strings
Contains(t, s) ==
    \E i \in 0..(Len(s) - Len(t)) : SubSeq(s, i + 1, i + Len(t)) = t

\* t.lower() in name.lower()
TargetMatches(t, name) ==
    \E lt \in {Lower(t)}, ln \in {Lower(name)} : Contains(lt, ln)

\* the same test with t.lower() in hand
LowerMatches(lt, name) == \E ln \in {Lower(name)} : Contains(lt, ln)

Unknown == <<"u","n","k","n","o","w","n">>

targets == <<
    <<"_","_","l","l","l","_","l","o","c","k","_","w","a","k","e","_",
      "p","r","i","v","a","t","e">>,
    <<"A","r","c","S","w","a","p">>,
    <<"M","u","t","e","x">>,
    <<"R","w","L","o","c","k">>,
    <<"R","a","y","o","n">>,
    <<"I","n","d","e","x","M","a","p">>,
    <<"s","h","i","f","t","_","r","e","m","o","v","e">>,
    <<"m","a","l","l","o","c">>,
    <<"c","f","r","e","e">>,
    <<"V","e","c",":",":","p","u","s","h">>,
    <<"c","o","l","l","e","c","t">>,
    <<"a","l","l","o","c">>,
    <<"d","e","a","l","l","o","c">>
>>

\* ------------------------------------------------------------- Counter ----
\* A collections.Counter is a dict: its items in insertion order, as a
\* sequence of <<key, count>>.
CounterKeys(c) == {c[i][1] : i \in DOMAIN c}

\* Counter.__getitem__ / __missing__
CounterGet(c, k) ==
    IF k \in CounterKeys(c)
    THEN c[CHOOSE i \in DOMAIN c : c[i][1] = k][2]
    ELSE 0

\* counter[k] += 1
CounterIncr(c, k) ==
    IF k \in CounterKeys(c)
    THEN [i \in DOMAIN c |-> IF c[i][1] = k THEN <<k, c[i][2] + 1>> ELSE c[i]]
    ELSE Append(c, <<k, 1>>)

Min(a, b) == IF a < b THEN a ELSE b

ListedBeforeUnstable(items, i, j) ==
    \/ items[i][2] > items[j][2]
    \/ items[i][2] = items[j][2] /\ i > j

\* sorted(items, key = count, reverse = True) is stable: item i comes before
\* item j when its count is greater, or equal and it was inserted earlier
ListedBefore(items, i, j) ==
    \/ items[i][2] > items[j][2]
    \/ items[i][2] = items[j][2] /\ i < j

\* position of item i in the sorted list
Rank(items, i) ==
    1 + Cardinality({j \in DOMAIN items : ListedBefore(items, j, i)})

Sorted(items) ==
    CHOOSE s \in {[r \in 1..Len(items) |->
                     items[CHOOSE i \in DOMAIN items : rank[i] = r]] :
                  rank \in {<<>> \o [i \in DOMAIN items |-> Rank(items, i)]}} :
        TRUE

\* heapq.nlargest(n, items, key = count) = sorted(items, reverse = True)[:n]
NLargest(n, items) == SubSeq(Sorted(items), 1, Min(n, Len(items)))

\* Counter.most_common(n)
MostCommon(c, n) == NLargest(n, c)

\* ---------------------------------------------------------- arithmetic ----
\* a / b rounded to the nearest integer, for b > 0
RoundDiv(a, b) == (2 * a + b) \div (2 * b)

\* 100 * count / total_samples as printed with :5.2f, in hundredths of a
\* percent; the division raises ZeroDivisionError when total_samples is 0
Percent(count, total) ==
    IF total = 0
    THEN [raised |-> TRUE, val |-> 0]
    ELSE [raised |-> FALSE, val |-> RoundDiv(10000 * count, total)]

\* ------------------------------------------------------ accumulation ----
Frames == 0..(NumFrames - 1)

\* f.get('name', 'unknown')
FrameName(f) == IF "name" \in DOMAIN f THEN f.name ELSE Unknown

\* [f.get('name', 'unknown') for f in frames]
FrameNames(frames) == [i \in DOMAIN frames |-> FrameName(frames[i])]

TotalAfterNonEmpty(total, samples) ==
    total + Cardinality({i \in DOMAIN samples : samples[i] # <<>>})

TotalAfterDropLast(total, samples) == total + Len(samples) - 1

\* total_samples += len(samples)
TotalAfter(total, samples) == total + Len(samples)

AddExclusiveRoot(c, stack) == CounterIncr(c, stack[1])

\* exclusive_counter[stack[-1]] += 1
AddExclusive(c, stack) == CounterIncr(c, stack[Len(stack)])

\* every order in which the elements of the finite set S can be iterated
SetOrders(S) ==
    {o \in [1..Cardinality(S) -> S] : \A i, j \in DOMAIN o : i # j => o[i] # o[j]}

IterateStackItself(stack) == {stack}

\* for frame_idx in set(stack): the iteration order of a set is not the
\* order of the stack; any order of the distinct frames is allowed
UniqueInStack(stack) == SetOrders({stack[i] : i \in DOMAIN stack})

RECURSIVE AddInclusive(_, _)
\* for frame_idx in unique_in_stack: inclusive_counter[frame_idx] += 1
AddInclusive(c, order) ==
    IF order = <<>> THEN c
    ELSE AddInclusive(CounterIncr(c, order[1]), Tail(order))

\* --------------------------------------------------------------- report ----
\* What a printing loop wrote: its lines, and whether it stopped on an
\* exception.
Printed(lines) == [lines |-> lines, raised |-> FALSE]
RaisedAfter(lines) == [lines |-> lines, raised |-> TRUE]

\* print(count, 100*count/total_samples, frame_names[frame_idx]); the line
\* also records frame_idx, the loop variable it was printed for
ReportLine(item, total, names) ==
    LET p == Percent(item[2], total)
    IN  IF p.raised
        THEN RaisedAfter(<<>>)
        ELSE Printed(<<[frame |-> item[1], count |-> item[2], pct |-> p.val,
                        name |-> names[item[1] + 1]]>>)

\* A loop whose iterations write outs[1], outs[2], ... stops at the first
\* one that raises.
LoopOf(outs) ==
    LET bad == {i \in DOMAIN outs : outs[i].raised}
        stop == IF bad = {} THEN Len(outs) + 1
                ELSE CHOOSE i \in bad : \A j \in bad : i <= j
        ran == SelectSeq(SubSeq(outs, 1, stop - 1), LAMBDA o : o.lines # <<>>)
    IN  [lines |-> [i \in DOMAIN ran |-> ran[i].lines[1]],
         raised |-> bad # {}]

Loop(outs) == CHOOSE r \in {LoopOf(o) : o \in {<<>> \o outs}} : TRUE

\* for frame_idx, count in listing: print(...)
ReportLines(listing, total, names) ==
    Loop([i \in DOMAIN listing |-> ReportLine(listing[i], total, names)])

\* matches = [(idx, name) for idx, name in enumerate(frame_names) if ...]
\* (1-based indices)
Matches(t, names) ==
    UNION {{i \in DOMAIN names : LowerMatches(lt, names[i])} : lt \in {Lower(t)}}

\* sum(counter[idx] for idx, name in matches): the number of pairs
\* <<item, unit>> with unit in 1..count, over the matching items
SumOver(c, idxs) ==
    Cardinality(UNION {{<<i, u>> : u \in 1..c[i][2]} :
                        i \in {k \in DOMAIN c : c[k][1] + 1 \in idxs}})

\* print(t, total_inc, 100*total_inc/total_samples, total_exc,
\*       100*total_exc/total_samples)
CheckPrint(t, total_inc, total_exc, total) ==
    LET pi == Percent(total_inc, total)
        pe == Percent(total_exc, total)
    IN  IF pi.raised \/ pe.raised
        THEN RaisedAfter(<<>>)
        ELSE Printed(<<[target |-> t, inc |-> total_inc, inc_pct |-> pi.val,
                        exc |-> total_exc, exc_pct |-> pe.val]>>)

CheckLineUnguarded(t, total_inc, total_exc, total) ==
    CheckPrint(t, total_inc, total_exc, total)

\* if total_inc > 0: print(...)
CheckLine(t, total_inc, total_exc, total) ==
    IF total_inc > 0
    THEN CheckPrint(t, total_inc, total_exc, total)
    ELSE Printed(<<>>)

\* one iteration of `for t in targets`
CheckTarget(t, names, inc, exc, total) ==
    CHOOSE out \in {CheckLine(t, SumOver(inc, m), SumOver(exc, m), total) :
                        m \in {Matches(t, names)}} : TRUE

\* for t in targets: ...
CheckLines(ts, names, inc, exc, total) ==
    Loop([i \in DOMAIN ts |-> CheckTarget(ts[i], names, inc, exc, total)])

\* --------------------------------------------------------------- inputs ----
Seqs(S, n) == UNION {[1..k -> S] : k \in 0..n}

NameMutexLock == <<"s","y","s",":",":","M","u","t","e","x">>
NameMutexGuard == <<"M","U","T","E","X","G","u","a","r","d">>
NameMalloc == <<"_","_","m","a","l","l","o","c">>
NameMain == <<"m","a","i","n">>

NoName == [x \in {} |-> 0]

FramePool == <<[name |-> NameMain], [name |-> NameMutexLock], NoName,
               [name |-> NameMalloc], [name |-> NameMutexGuard]>>

\* a frame table of NumFrames frames
FrameTable == [i \in 1..NumFrames |-> FramePool[((i - 1) % Len(FramePool)) + 1]]

Stacks == {<<>>, <<1>>, <<0, 1>>, <<2, 2, 3>>}

\* one sample per frame, leaves in descending frame order
WideSamples == [i \in 1..NumFrames |-> <<NumFrames - i>>]

\* the ways to cut a sample list of length n into p consecutive profiles:
\* the end position of each profile
Cuts(n, p) ==
    {c \in [1..p -> 0..n] :
        /\ p > 0 => c[p] = n
        /\ \A k \in 1..(p - 1) : c[k] <= c[k + 1]}

CutProfiles(s, c) ==
    [k \in DOMAIN c |->
        [samples |-> SubSeq(s, (IF k = 1 THEN 0 ELSE c[k - 1]) + 1, c[k])]]

\* at most MaxSamples samples in at most MaxProfiles profiles
SmallProfileLists ==
    UNION {{CutProfiles(s, c) : c \in Cuts(Len(s), p)} :
            s \in Seqs(Stacks, MaxSamples), p \in 0..MaxProfiles}

\* ... alone, or with a profile of NumFrames single-frame samples before
\* or after them
ProfileLists ==
    SmallProfileLists
    \cup {<<[samples |-> WideSamples]>> \o pl : pl \in SmallProfileLists}
    \cup {pl \o <<[samples |-> WideSamples]>> : pl \in SmallProfileLists}

Inputs ==
    {[shared |-> [frames |-> FrameTable], profiles |-> pl] : pl \in ProfileLists}

NoData == [shared |-> [frames |-> <<>>], profiles |-> <<>>]

\* -------------------------------------------------------------- actions ----
InitProfile ==
    /\ pc = "load"
    /\ data = NoData
    /\ frame_names = <<>>
    /\ total_samples = 0
    /\ exclusive_counter = <<>>
    /\ inclusive_counter = <<>>
    /\ pidx = 0
    /\ sidx = 0
    /\ exc_report = <<>>
    /\ inc_report = <<>>
    /\ checks_report = <<>>
    /\ fault = "none"

\* lines 7-15: json.load, frame_names, the empty counters
Load ==
    /\ pc = "load"
    /\ \E d \in Inputs :
        /\ data' = d
        /\ frame_names' = FrameNames(d.shared.frames)
    /\ total_samples' = 0
    /\ exclusive_counter' = <<>>
    /\ inclusive_counter' = <<>>
    /\ pc' = "profiles"
    /\ UNCHANGED <<pidx, sidx, exc_report, inc_report, checks_report, fault>>
    /\ UNCHANGED bvars

CurrentSamples == data.profiles[pidx].samples

\* lines 17-19: the next profile; total_samples += len(samples)
NextProfile ==
    /\ pc = "profiles"
    /\ pidx < Len(data.profiles)
    /\ pidx' = pidx + 1
    /\ sidx' = 0
    /\ LET samples == data.profiles[pidx + 1].samples
       IN  /\ total_samples' = TotalAfter(total_samples, samples)
           /\ pc' = IF samples = <<>> THEN "profiles" ELSE "samples"
    /\ UNCHANGED <<data, frame_names, exclusive_counter, inclusive_counter,
                   exc_report, inc_report, checks_report, fault>>
    /\ UNCHANGED bvars

AfterSample == IF sidx + 1 = Len(CurrentSamples) THEN "profiles" ELSE "samples"

\* lines 20-22: an empty stack is skipped
SkipEmptyStack ==
    /\ pc = "samples"
    /\ CurrentSamples[sidx + 1] = <<>>
    /\ sidx' = sidx + 1
    /\ pc' = AfterSample
    /\ UNCHANGED <<data, frame_names, total_samples, exclusive_counter,
                   inclusive_counter, pidx, exc_report, inc_report,
                   checks_report, fault>>
    /\ UNCHANGED bvars

\* lines 20-28: one non-empty stack
CountSample ==
    /\ pc = "samples"
    /\ LET stack == CurrentSamples[sidx + 1]
       IN  /\ stack # <<>>
           /\ exclusive_counter' = AddExclusive(exclusive_counter, stack)
           /\ \E order \in UniqueInStack(stack) :
                inclusive_counter' = AddInclusive(inclusive_counter, order)
    /\ sidx' = sidx + 1
    /\ pc' = AfterSample
    /\ UNCHANGED <<data, frame_names, total_samples, pidx, exc_report,
                   inc_report, checks_report, fault>>
    /\ UNCHANGED bvars

\* lines 30-34: the total and the exclusive listing
PrintExclusive ==
    /\ pc = "profiles"
    /\ pidx = Len(data.profiles)
    /\ \E listing \in {MostCommon(exclusive_counter, TopN)} :
       \E out \in {ReportLines(listing, total_samples, frame_names)} :
           /\ exc_report' = out.lines
           /\ fault' = IF out.raised THEN "ZeroDivisionError" ELSE fault
           /\ pc' = IF out.raised THEN "crashed" ELSE "inclusive"
    /\ UNCHANGED <<data, frame_names, total_samples, exclusive_counter,
                   inclusive_counter, pidx, sidx, inc_report, checks_report>>
    /\ UNCHANGED bvars

\* lines 36-38: the inclusive listing
PrintInclusive ==
    /\ pc = "inclusive"
    /\ \E listing \in {MostCommon(inclusive_counter, TopN)} :
       \E out \in {ReportLines(listing, total_samples, frame_names)} :
           /\ inc_report' = out.lines
           /\ fault' = IF out.raised THEN "ZeroDivisionError" ELSE fault
           /\ pc' = IF out.raised THEN "crashed" ELSE "checks"
    /\ UNCHANGED <<data, frame_names, total_samples, exclusive_counter,
                   inclusive_counter, pidx, sidx, exc_report, checks_report>>
    /\ UNCHANGED bvars

\* lines 40-63: the target-substring checks
PrintChecks ==
    /\ pc = "checks"
    /\ \E out \in {CheckLines(targets, frame_names, inclusive_counter,
                                exclusive_counter, total_samples)} :
           /\ checks_report' = out.lines
           /\ fault' = IF out.raised THEN "ZeroDivisionError" ELSE fault
           /\ pc' = IF out.raised THEN "crashed" ELSE "done"
    /\ UNCHANGED <<data, frame_names, total_samples, exclusive_counter,
                   inclusive_counter, pidx, sidx, exc_report, inc_report>>
    /\ UNCHANGED bvars

NextProfileStep ==
    \/ Load
    \/ NextProfile
    \/ SkipEmptyStack
    \/ CountSample
    \/ PrintExclusive
    \/ PrintInclusive
    \/ PrintChecks


\* ------------------------------------------- analyze_profile: properties ----
\* every sample of the input, as <<profile, position>>
Positions ==
    UNION {{<<p, i>> : i \in DOMAIN data.profiles[p].samples} :
            p \in DOMAIN data.profiles}

SampleAt(pos) == data.profiles[pos[1]].samples[pos[2]]

\* the samples the loop has gone through so far
Processed ==
    {pos \in Positions : pos[1] < pidx \/ (pos[1] = pidx /\ pos[2] <= sidx)}

Occurs(f, stack) == \E i \in DOMAIN stack : stack[i] = f

IsLeaf(f, stack) == stack # <<>> /\ stack[Len(stack)] = f

NonEmpty(S) == {pos \in S : SampleAt(pos) # <<>>}

\* the accumulation loop is over
Accumulated ==
    \/ pc \in {"inclusive", "checks", "done", "crashed"}
    \/ pc = "profiles" /\ pidx = Len(data.profiles)

SumCounts(c) == Cardinality(UNION {{<<i, u>> : u \in 1..c[i][2]} : i \in DOMAIN c})

\* C1: once all samples of all profiles are accumulated, the inclusive count
\* of every frame is the number of samples in which the frame occurs at
\* least once (a repeated frame counts once, an absent frame not at all).
C1_InclusiveCount ==
    Accumulated =>
        \A all \in {Positions} : \A f \in Frames :
            CounterGet(inclusive_counter, f) =
                Cardinality({pos \in all : Occurs(f, SampleAt(pos))})

\* a finished run whose input has a stack with a repeated frame
C1_Witness ==
    /\ pc = "done"
    /\ \E pos \in Positions :
         \E i, j \in DOMAIN SampleAt(pos) :
            /\ i # j
            /\ SampleAt(pos)[i] = SampleAt(pos)[j]
            /\ CounterGet(inclusive_counter, SampleAt(pos)[i]) = 1

\* C2: once all samples are accumulated, the exclusive count of every frame
\* is the number of non-empty samples whose last element is that frame.
C2_ExclusiveCount ==
    Accumulated =>
        \A all \in {Positions} : \A f \in Frames :
            CounterGet(exclusive_counter, f) =
                Cardinality({pos \in all : IsLeaf(f, SampleAt(pos))})

\* a finished run with a frame that occurs only above the leaf
C2_Witness ==
    /\ pc = "done"
    /\ \E f \in Frames :
        /\ CounterGet(exclusive_counter, f) = 0
        /\ CounterGet(inclusive_counter, f) > 0

\* C3: total_samples is the raw number of samples of the profiles entered so
\* far, empty stacks included; the samples gone through so far, the empty
\* ones among them, have added to the counters exactly what the non-empty
\* ones add; and at the end the exclusive counts sum to total_samples minus
\* the number of empty stacks.
C3_TotalAndEmptyStacks ==
    \A all \in {Positions} :
    \A done \in {{pos \in all : pos[1] < pidx \/ (pos[1] = pidx /\ pos[2] <= sidx)}} :
        /\ total_samples = Cardinality({pos \in all : pos[1] <= pidx})
        /\ SumCounts(exclusive_counter) = Cardinality(NonEmpty(done))
        /\ CounterKeys(inclusive_counter) =
                UNION {{SampleAt(pos)[i] : i \in DOMAIN SampleAt(pos)} : pos \in done}
        /\ Accumulated =>
                SumCounts(exclusive_counter) =
                    total_samples - Cardinality(all \ NonEmpty(all))

\* a finished run over empty and non-empty stacks
C3_Witness ==
    /\ pc = "done"
    /\ Positions \ NonEmpty(Positions) # {}
    /\ NonEmpty(Positions) # {}
    /\ SumCounts(exclusive_counter) < total_samples

\* position of key k among the items of counter c
InsertionIndex(c, k) == CHOOSE i \in DOMAIN c : c[i][1] = k

\* report lists items at[1], at[2], ... of counter c
RankedAt(report, c, at) ==
    /\ Len(report) <= TopN
    /\ Len(report) = Min(TopN, Len(c))
    /\ \A i \in DOMAIN report : report[i].count = c[at[i]][2]
    /\ \A i, j \in DOMAIN report :
        i < j =>
            /\ at[i] # at[j]
            /\ report[i].count >= report[j].count
            /\ report[i].count = report[j].count => at[i] < at[j]
    /\ \A k \in DOMAIN c \ {at[i] : i \in DOMAIN at} :
        \A i \in DOMAIN report :
            /\ c[k][2] <= report[i].count
            /\ c[k][2] = report[i].count => at[i] < k

Ranked(report, c) ==
    /\ \A i \in DOMAIN report : report[i].frame \in CounterKeys(c)
    /\ \A at \in {<<>> \o [i \in DOMAIN report |->
                                InsertionIndex(c, report[i].frame)]} :
        RankedAt(report, c, at)

\* C4: each printed listing has at most 20 frames in non-increasing order of
\* count, no omitted frame has a greater count than a listed one, and among
\* equal counts the frame inserted into the counter first is listed first.
C4_RankedListings ==
    /\ pc \in {"inclusive", "checks", "done"} => Ranked(exc_report, exclusive_counter)
    /\ pc \in {"checks", "done"} => Ranked(inc_report, inclusive_counter)

\* a finished run with more than 20 frames counted, and a tie that the
\* listing does not order by frame index
C4_Witness ==
    /\ pc = "done"
    /\ Len(exclusive_counter) > TopN
    /\ Len(inclusive_counter) > TopN
    /\ \E i, j \in DOMAIN exc_report :
        /\ i < j
        /\ exc_report[i].count = exc_report[j].count
        /\ exc_report[i].frame > exc_report[j].frame
    /\ \E i, j \in DOMAIN inc_report :
        /\ i < j
        /\ inc_report[i].count > inc_report[j].count

\* C5: when total_samples is 0 no division by it is evaluated: no listing and
\* no target check raises, and the report runs to its end.
C5_NoDivisionByZeroTotal ==
    total_samples = 0 => (fault = "none" /\ pc # "crashed")

\* a finished report over profiles that hold no sample, with frame names
\* that match targets
C5_Witness ==
    /\ pc = "done"
    /\ total_samples = 0
    /\ data.profiles # <<>>
    /\ \E i \in DOMAIN targets : Matches(targets[i], frame_names) # {}
    /\ checks_report = <<>>

\* C10: after any prefix of the samples, for every frame, exclusive count <=
\* inclusive count <= non-empty samples gone through <= total_samples; no
\* printed percentage is above 100%.
C10_CountsBounded ==
    /\ \A n \in {Cardinality(NonEmpty(Processed))} :
        /\ \A i \in DOMAIN inclusive_counter : inclusive_counter[i][2] <= n
        /\ n <= total_samples
    /\ \A i \in DOMAIN exclusive_counter :
        exclusive_counter[i][2] <=
            CounterGet(inclusive_counter, exclusive_counter[i][1])
    /\ \A i \in DOMAIN exc_report : exc_report[i].pct <= 10000
    /\ \A i \in DOMAIN inc_report : inc_report[i].pct <= 10000

\* in the middle of a profile, after an empty and a non-empty stack, with a
\* frame that is counted inclusively but not exclusively
C10_Witness ==
    /\ pc = "samples"
    /\ Cardinality(NonEmpty(Processed)) < Cardinality(Processed)
    /\ \E f \in Frames :
        /\ CounterGet(exclusive_counter, f) < CounterGet(inclusive_counter, f)
        /\ CounterGet(inclusive_counter, f) = Cardinality(NonEmpty(Processed))

\* =========================================================================
\* compare_benchmarks.py
\* =========================================================================
\* Times are Python floats read from decimal literals; they are kept here
\* as whole thousandths of a second.  Percentages are kept in tenths of a
\* percent, as printed with one decimal.
\*
\* An operator argument is evaluated each time it is used; where a value is
\* used many times it is bound once, as  CHOOSE r \in {F(x) : x \in {e}} : TRUE.

Whitespace == {" ", "\t", "\n", "\r"}

Digits == <<"0", "1", "2", "3", "4", "5", "6", "7", "8", "9">>

DigitSet == {Digits[i] : i \in DOMAIN Digits}

DigitVal(c) == (CHOOSE i \in DOMAIN Digits : Digits[i] = c) - 1

\* the least element of a non-empty set of integers, 0 for the empty set
FirstOf(S) ==
    CHOOSE r \in {IF T = {} THEN 0 ELSE CHOOSE x \in T : \A y \in T : x <= y :
                  T \in {S}} : TRUE

\* the elements of a set of integers in increasing order
Ascending(S) ==
    CHOOSE r \in {<<>> \o [k \in 1..Cardinality(T) |->
                            CHOOSE x \in T : Cardinality({y \in T : y < x}) = k - 1] :
                  T \in {S}} : TRUE

\* position of the first occurrence of sub in s at or after from; 0 if none
IndexOf(sub, s, from) ==
    FirstOf({i \in from..(Len(s) - Len(sub) + 1) :
                SubSeq(s, i, i + Len(sub) - 1) = sub})

SplitAt(s, cuts) ==
    <<>> \o [k \in 1..(Len(cuts) + 1) |->
                SubSeq(s, (IF k = 1 THEN 0 ELSE cuts[k - 1]) + 1,
                          (IF k > Len(cuts) THEN Len(s) + 1 ELSE cuts[k]) - 1)]

\* str.split(sep), sep one character
Split(s, sep) ==
    CHOOSE r \in {SplitAt(s, cuts) :
                  cuts \in {Ascending({i \in DOMAIN s : s[i] = sep})}} : TRUE

\* str.strip()
Strip(s) ==
    CHOOSE r \in {IF keep = {} THEN <<>>
                  ELSE SubSeq(s, FirstOf(keep),
                              Len(s) + 1 - FirstOf({Len(s) + 1 - i : i \in keep})) :
                  keep \in {{i \in DOMAIN s : s[i] \notin Whitespace}}} : TRUE

IsDigits(s) == s # <<>> /\ \A i \in DOMAIN s : s[i] \in DigitSet

RECURSIVE NatOf(_, _)
\* the number written by the first k digits of s
NatOf(s, k) == IF k = 0 THEN 0 ELSE 10 * NatOf(s, k - 1) + DigitVal(s[k])

\* int(s) succeeds (plain decimal digits)
IsInt(s) == IsDigits(s)

\* int(s)
ToInt(s) == NatOf(s, Len(s))

DotsOf(s) == {i \in DOMAIN s : s[i] = "."}

\* float(s) succeeds (digits, with at most one decimal point)
IsFloat(s) ==
    \/ IsDigits(s)
    \/ /\ Cardinality(DotsOf(s)) = 1
       /\ Len(s) > 1
       /\ \A i \in DOMAIN s : s[i] \in DigitSet \cup {"."}

\* float(s), in thousandths (digits after the third decimal are dropped)
ToFloat(s) ==
    CHOOSE r \in {IF d = 0 THEN 1000 * NatOf(s, Len(s))
                  ELSE 1000 * NatOf(s, d - 1)
                       + NatOf(SubSeq(s \o <<"0", "0", "0">>, d + 1, d + 3), 3) :
                  d \in {FirstOf(DotsOf(s))}} : TRUE

RunsHeader == <<"|", " ", "R", "u", "n", "s">>

NoMatch == [matched |-> FALSE, group0 |-> <<>>]

\* re.search(r'\| Runs.*?\n\|(.*?)\n\n', content, re.DOTALL): the leftmost
\* "| Runs", then the first "\n|" after it, then the first "\n\n" after that
ReSearch(text) ==
    CHOOSE r \in
        {IF a = 0 THEN NoMatch
         ELSE CHOOSE r2 \in
            {IF b = 0 THEN NoMatch
             ELSE CHOOSE r3 \in
                {IF c = 0 THEN NoMatch
                 ELSE [matched |-> TRUE, group0 |-> SubSeq(text, a, c + 1)] :
                 c \in {IndexOf(<<"\n", "\n">>, text, b + 2)}} : TRUE :
             b \in {IndexOf(<<"\n", "|">>, text, a + Len(RunsHeader))}} : TRUE :
         a \in {IndexOf(RunsHeader, text, 1)}} : TRUE

Returned(rows) == [rows |-> rows, raised |-> "none"]
Raises(e) == [rows |-> <<>>, raised |-> e]

NoMatchRaises == Raises("AttributeError")

\* if not match: return []
NoMatchResult == Returned(<<>>)

\* match.group(0).split('\n')[2:-2]
DataLines(group0) ==
    CHOOSE r \in {SubSeq(ls, 3, Len(ls) - 2) : ls \in {Split(group0, "\n")}} : TRUE

\* if len(parts) >= 9:
KeepLine(parts) == Len(parts) >= MinParts

\* the body of the if: int(parts[2].strip()), int(parts[3].strip()),
\* float(parts[9].strip()), times.append(...)
AppendRow(parts) ==
    IF ~IsInt(Strip(parts[PopField + 1])) THEN Raises("ValueError")
    ELSE IF ~IsInt(Strip(parts[RegionsField + 1])) THEN Raises("ValueError")
    ELSE IF Len(parts) < TimeField + 1 THEN Raises("IndexError")
    ELSE IF ~IsFloat(Strip(parts[TimeField + 1])) THEN Raises("ValueError")
    ELSE Returned(<<[pop |-> ToInt(Strip(parts[PopField + 1])),
                     regions |-> ToInt(Strip(parts[RegionsField + 1])),
                     time |-> ToFloat(Strip(parts[TimeField + 1]))]>>)

\* one iteration of `for line in lines`
ParseLine(line) ==
    CHOOSE r \in {IF KeepLine(parts) THEN AppendRow(parts) ELSE Returned(<<>>) :
                  parts \in {Split(line, "|")}} : TRUE

\* the loop over the data lines stops at the first line that raises
ParseLoopOf(outs) ==
    LET bad == {i \in DOMAIN outs : outs[i].raised # "none"}
        ran == SelectSeq(outs, LAMBDA o : o.rows # <<>>)
    IN  IF bad = {}
        THEN Returned([i \in DOMAIN ran |-> ran[i].rows[1]])
        ELSE Raises(outs[FirstOf(bad)].raised)

\* for line in lines: ...; return times
ParseLines(lines) ==
    CHOOSE r \in {ParseLoopOf(outs) :
                  outs \in {<<>> \o [i \in DOMAIN lines |-> ParseLine(lines[i])]}} :
        TRUE

\* parse_times(file_path), given what f.read() returned
parse_times(text) ==
    CHOOSE r \in {IF m.matched THEN ParseLines(DataLines(m.group0))
                  ELSE NoMatchResult :
                  m \in {ReSearch(text)}} : TRUE

\* ----------------------------------------------------------------- files ----
RECURSIVE Join(_, _)
\* sep.join(items)
Join(items, sep) ==
    IF items = <<>> THEN <<>>
    ELSE IF Len(items) = 1 THEN items[1]
    ELSE items[1] \o sep \o Join(Tail(items), sep)

Bar == <<"|">>
NL == <<"\n">>
Fx == <<"x">>
FRuns == <<"1">>
FPop == <<" ", "1", "0", "0", " ">>
FRegions == <<" ", "5", " ">>
FPop2 == <<" ", "2", "0", "0", " ">>
FRegions2 == <<"1", "0">>
FOne == <<" ", "1", ".", "0", " ">>
FZero == <<" ", "0", ".", "0">>
FBad == <<" ", "n", "/", "a", " ">>

\* 11 parts, time 1.0
RowOne == Join(<<<<>>, FRuns, FPop, FRegions, Fx, Fx, Fx, Fx, Fx, FOne, <<>>>>, Bar)
\* 10 parts (no closing bar), time 0.0
RowZero == Join(<<<<>>, FRuns, FPop2, FRegions2, Fx, Fx, Fx, Fx, Fx, FZero>>, Bar)
\* 3 parts
RowShort == Join(<<<<>>, Fx, <<>>>>, Bar)
\* 9 parts: the columns up to the one before the time
RowNine == Join(<<<<>>, FRuns, FPop, FRegions, Fx, Fx, Fx, Fx, Fx>>, Bar)
\* 11 parts, population not a number
RowBad == Join(<<<<>>, FRuns, FBad, FRegions, Fx, Fx, Fx, Fx, Fx, FOne, <<>>>>, Bar)

GoodRows == {RowOne, RowZero}
OtherRows == {RowShort, RowNine, RowBad}

TitleLine == <<"#", " ", "r">>
HeaderLine ==
    Join(<<<<>>, <<" ", "R", "u", "n", "s", " ">>, <<" ", "P", "o", "p", " ">>, <<>>>>, Bar)
RuleLine == Join(<<<<>>, <<"-", "-">>, <<"-", "-">>, <<>>>>, Bar)

\* a report: title, blank line, the table, blank line, a closing line
Report(rows) ==
    Join(<<TitleLine, <<>>, HeaderLine, RuleLine>> \o rows \o <<<<>>, Fx>>, NL)

\* tables of at most MaxRows good rows, and the same with one other row
\* put first or last in place of a good one
TableRows ==
    Seqs(GoodRows, MaxRows)
    \cup UNION {{<<o>> \o g, g \o <<o>>} :
                 o \in OtherRows, g \in Seqs(GoodRows, MaxRows - 1)}

Files ==
    {Report(rows) : rows \in TableRows}
    \cup {<<>>,
          \* no header
          Join(<<TitleLine, <<>>, RowOne, <<>>, Fx>>, NL),
          \* the table runs to the end of the file: no blank line after it
          Join(<<TitleLine, <<>>, HeaderLine, RuleLine, RowOne, <<>>>>, NL)}

\* parse_times of every file, computed once
Parsed == [text \in Files |-> parse_times(text)]

\* --------------------------------------------------------------- actions ----
NoLine == [old |-> 0, new |-> 0, change |-> 0, pct |-> 0]

InitBench ==
    /\ bpc = "parse_old"
    /\ case = 0
    /\ content = <<>>
    /\ old_times = <<>>
    /\ new_times = <<>>
    /\ row = 0
    /\ table = <<>>
    /\ total_old = 0
    /\ total_new = 0
    /\ total_line = NoLine
    /\ grand_total_old = 0
    /\ grand_total_new = 0
    /\ summary = NoLine
    /\ error = "none"

\* x / old * 100 as printed with one decimal; the division raises
\* ZeroDivisionError when old is 0
DivideTimes100(x, old) ==
    IF old = 0
    THEN [raised |-> TRUE, val |-> 0]
    ELSE [raised |-> FALSE,
          val |-> IF old > 0 THEN RoundDiv(1000 * x, old)
                  ELSE RoundDiv(1000 * (0 - x), 0 - old)]

PctChangeUnguarded(change, old) == DivideTimes100(change, old)

\* (change / old * 100) if old > 0 else 0
PctChange(change, old) ==
    IF old > 0 THEN DivideTimes100(change, old) ELSE [raised |-> FALSE, val |-> 0]

\* the number of pairs zip(old_times, new_times) yields
ZipLen(old, new) == Min(Len(old), Len(new))

GrandAfterLast(grand, total) == total

\* grand_total += total
GrandAfter(grand, total) == grand + total

\* lines 43-45: the case's heading; old_times = parse_times(old_file)
ParseOld ==
    /\ bpc = "parse_old"
    /\ case < NumCases
    /\ case' = case + 1
    /\ table' = <<>>
    /\ \E text \in Files : \E r \in {Parsed[text]} :
        /\ content' = text
        /\ old_times' = IF r.raised = "none" THEN r.rows ELSE old_times
        /\ error' = r.raised
        /\ bpc' = IF r.raised = "none" THEN "old_parsed" ELSE "crashed"
    /\ UNCHANGED <<new_times, row, total_old, total_new, total_line,
                   grand_total_old, grand_total_new, summary>>
    /\ UNCHANGED pvars

\* lines 46-52: new_times = parse_times(new_file); the column heading;
\* total_old = total_new = 0
ParseNew ==
    /\ bpc = "old_parsed"
    /\ \E text \in Files : \E r \in {Parsed[text]} :
        /\ content' = text
        /\ new_times' = IF r.raised = "none" THEN r.rows ELSE new_times
        /\ error' = r.raised
        /\ bpc' = IF r.raised = "none" THEN "new_parsed" ELSE "crashed"
        /\ total_old' = IF r.raised = "none" THEN 0 ELSE total_old
        /\ total_new' = IF r.raised = "none" THEN 0 ELSE total_new
        /\ row' = IF r.raised = "none" THEN 0 ELSE row
    /\ UNCHANGED <<case, old_times, table, total_line, grand_total_old,
                   grand_total_new, summary>>
    /\ UNCHANGED pvars

\* lines 54-59: one pair of zip(old_times, new_times)
CompareRow ==
    /\ bpc \in {"new_parsed", "rows"}
    /\ row < ZipLen(old_times, new_times)
    /\ LET o == old_times[row + 1]
           n == new_times[row + 1]
           change == n.time - o.time
           pct == PctChange(change, o.time)
       IN  IF pct.raised
           THEN /\ bpc' = "crashed"
                /\ error' = "ZeroDivisionError"
                /\ UNCHANGED <<row, table, total_old, total_new>>
           ELSE /\ bpc' = "rows"
                /\ error' = error
                /\ row' = row + 1
                /\ table' = Append(table, [pop |-> o.pop, regions |-> o.regions,
                                           old |-> o.time, new |-> n.time,
                                           change |-> change, pct |-> pct.val])
                /\ total_old' = total_old + o.time
                /\ total_new' = total_new + n.time
    /\ content' = <<>>
    /\ UNCHANGED <<case, old_times, new_times, total_line, grand_total_old,
                   grand_total_new, summary>>
    /\ UNCHANGED pvars

\* lines 61-67: the case's TOTAL line; the grand totals
CaseTotal ==
    /\ bpc \in {"new_parsed", "rows"}
    /\ row >= ZipLen(old_times, new_times)
    /\ LET total_change == total_new - total_old
           total_pct == PctChange(total_change, total_old)
       IN  IF total_pct.raised
           THEN /\ bpc' = "crashed"
                /\ error' = "ZeroDivisionError"
                /\ UNCHANGED <<total_line, grand_total_old, grand_total_new>>
           ELSE /\ bpc' = IF case = NumCases THEN "summary" ELSE "parse_old"
                /\ error' = error
                /\ total_line' = [old |-> total_old, new |-> total_new,
                                  change |-> total_change, pct |-> total_pct.val]
                /\ grand_total_old' = GrandAfter(grand_total_old, total_old)
                /\ grand_total_new' = GrandAfter(grand_total_new, total_new)
    /\ content' = <<>>
    /\ UNCHANGED <<case, old_times, new_times, row, table, total_old,
                   total_new, summary>>
    /\ UNCHANGED pvars

\* lines 69-76: OVERALL SUMMARY
Summary ==
    /\ bpc = "summary"
    /\ LET grand_change == grand_total_new - grand_total_old
           grand_pct == PctChange(grand_change, grand_total_old)
       IN  IF grand_pct.raised
           THEN /\ bpc' = "crashed"
                /\ error' = "ZeroDivisionError"
                /\ UNCHANGED summary
           ELSE /\ bpc' = "done"
                /\ error' = error
                /\ summary' = [old |-> grand_total_old, new |-> grand_total_new,
                               change |-> grand_change, pct |-> grand_pct.val]
    /\ UNCHANGED <<case, content, old_times, new_times, row, table, total_old,
                   total_new, total_line, grand_total_old, grand_total_new>>
    /\ UNCHANGED pvars

NextBenchStep ==
    \/ ParseOld
    \/ ParseNew
    \/ CompareRow
    \/ CaseTotal
    \/ Summary

\* ------------------------------------------------------- specifications ----
Init == InitProfile /\ InitBench

\* one call of analyze_profile
SpecProfile == Init /\ [][NextProfileStep]_vars

\* one run of compare_benchmarks.py
SpecBench == Init /\ [][NextBenchStep]_vars

\* ------------------------------------------ compare_benchmarks: properties ----
RECURSIVE SumTimes(_, _)
\* the times of the first n rows, added up
SumTimes(times, n) ==
    IF n = 0 THEN 0 ELSE SumTimes(times, n - 1) + times[n].time

Shorter(a, b) == IF Len(a) <= Len(b) THEN Len(a) ELSE Len(b)

\* the case's TOTAL line is printed
CaseClosed ==
    \/ bpc \in {"summary", "done"}
    \/ bpc = "parse_old" /\ case > 0

\* table row i pairs old row i with new row i
PairedAt(i) ==
    /\ table[i].pop = old_times[i].pop
    /\ table[i].regions = old_times[i].regions
    /\ table[i].old = old_times[i].time
    /\ table[i].new = new_times[i].time
    /\ table[i].change = new_times[i].time - old_times[i].time

C6_Pairing ==
    /\ bpc \in {"new_parsed", "rows"} =>
        /\ row <= Shorter(old_times, new_times)
        /\ Len(table) = row
        /\ \A i \in DOMAIN table : PairedAt(i)
        /\ total_old = SumTimes(old_times, row)
        /\ total_new = SumTimes(new_times, row)
    /\ CaseClosed =>
        /\ Len(table) = Shorter(old_times, new_times)
        /\ \A i \in DOMAIN table : PairedAt(i)
        /\ total_line.old = SumTimes(old_times, Len(table))
        /\ total_line.new = SumTimes(new_times, Len(table))
        /\ total_line.change = total_line.new - total_line.old
    /\ bpc = "done" =>
        /\ summary.old = grand_total_old
        /\ summary.new = grand_total_new
        /\ summary.change = grand_total_new - grand_total_old

\* a step that prints a case's TOTAL line adds that line's totals to the
\* grand totals; no other step changes the grand totals
C6_GrandStep ==
    IF bpc \in {"new_parsed", "rows"} /\ bpc' \in {"parse_old", "summary"}
    THEN /\ grand_total_old' = grand_total_old + total_line'.old
         /\ grand_total_new' = grand_total_new + total_line'.new
    ELSE UNCHANGED <<grand_total_old, grand_total_new>>

\* C6: old row i is paired with new row i; a case has as many comparison
\* rows as the shorter list, the rows beyond that add to no total, and the
\* grand totals are the sums of the per-case totals.
C6_PositionalPairing ==
    /\ (grand_total_old = 0 /\ grand_total_new = 0)
    /\ []C6_Pairing
    /\ [][C6_GrandStep]_vars

\* the last case closed over lists of unequal length, with a non-zero row
\* left out, after an earlier case added to the grand totals
C6_Witness ==
    /\ bpc = "done"
    /\ Len(old_times) > Len(new_times)
    /\ Len(new_times) > 0
    /\ old_times[Len(old_times)].time > 0
    /\ grand_total_old > total_line.old
    /\ total_line.old > 0

\* the percentage the claim gives for old and new
ClaimedPct(old, new) ==
    IF old > 0 THEN RoundDiv(1000 * (new - old), old) ELSE 0

\* C7: at each of the three levels the percentage is 100 * (new - old) / old
\* when old > 0 and 0 otherwise, and no division by a zero old value is
\* ever evaluated.
C7_PercentGuarded ==
    /\ error # "ZeroDivisionError"
    /\ \A i \in DOMAIN table : table[i].pct = ClaimedPct(table[i].old, table[i].new)
    /\ total_line.pct = ClaimedPct(total_line.old, total_line.new)
    /\ summary.pct = ClaimedPct(summary.old, summary.new)

\* a finished run whose last row, last case total and grand total all have
\* an old time of 0 and a new time above 0
C7_Witness ==
    /\ bpc = "done"
    /\ \E i \in DOMAIN table :
        table[i].old = 0 /\ table[i].new > 0 /\ table[i].pct = 0
    /\ total_line.old = 0 /\ total_line.new > 0 /\ total_line.pct = 0
    /\ summary.old = 0 /\ summary.new > 0 /\ summary.pct = 0

\* C8: a file with no table gives an empty row list and no exception; a case
\* in which either list is empty has no comparison row, totals of 0 and a
\* percentage of 0, and the run goes on.
C8_NoTableIsEmpty ==
    /\ bpc \in {"old_parsed", "new_parsed", "crashed"} =>
        \A m \in {ReSearch(content)} :
            ~m.matched =>
                /\ bpc # "crashed"
                /\ error = "none"
                /\ bpc = "old_parsed" => old_times = <<>>
                /\ bpc = "new_parsed" => new_times = <<>>
    /\ (CaseClosed /\ (old_times = <<>> \/ new_times = <<>>)) =>
        /\ table = <<>>
        /\ total_line = NoLine

\* in the last case the old file has rows and the new file, which is not
\* empty, has no table
C8_Witness ==
    /\ bpc = "new_parsed"
    /\ case = NumCases
    /\ content # <<>>
    /\ ~ReSearch(content).matched
    /\ old_times # <<>>
    /\ new_times = <<>>

\* the data lines of the table in the text parse_times read last
LastDataParts ==
    CHOOSE r \in {[i \in DOMAIN ls |-> Split(ls[i], "|")] :
                  ls \in {DataLines(ReSearch(content).group0)}} : TRUE

\* a line of at least 9 fields whose numbers are well formed
WellFormed(parts) ==
    /\ Len(parts) >= 9
    /\ IsInt(Strip(parts[3]))
    /\ IsInt(Strip(parts[4]))
    /\ Len(parts) >= 10 => IsFloat(Strip(parts[10]))

\* C9: when every data line of the matched table has fewer than 9 fields or
\* has at least 9 fields with well-formed numbers, parse_times raises
\* nothing and returns one row per line of at least 9 fields.
C9_NineFieldsKept ==
    (bpc \in {"old_parsed", "new_parsed", "crashed"} /\ ReSearch(content).matched) =>
        \A ps \in {LastDataParts} :
            (\A i \in DOMAIN ps : Len(ps[i]) < 9 \/ WellFormed(ps[i])) =>
                /\ bpc # "crashed"
                /\ Len(IF bpc = "old_parsed" THEN old_times ELSE new_times) =
                        Cardinality({i \in DOMAIN ps : Len(ps[i]) >= 9})

====
